---- MODULE Spec2Model ----
(***************************************************************************)
(* Model of Crypto-RSA-Algorithm.cpp: the modular-arithmetic core (abs,    *)
(* isEven, gcd, isCoprime, invMul, modMul, modPow) and the driver main.    *)
(*                                                                         *)
(* The templates are instantiated for int and for unsigned.  Values are    *)
(* mathematical integers; an unsigned value is a non-negative integer.     *)
(* All bounds keep every value and product below 2^31, so no operation of  *)
(* either instantiation wraps, and `/` and `%` are the C++ truncating      *)
(* operators.  On non-negative values the signed and the unsigned          *)
(* instantiation of every function coincide.                               *)
(***************************************************************************)
EXTENDS Integers, Sequences, FiniteSets, TLC

VARIABLES pc, P, Q, N, Phi, e, d, M, C, out, argv, retv

vars == <<pc, P, Q, N, Phi, e, d, M, C, out, argv, retv>>

mainVars == <<P, Q, N, Phi, e, d, M, C, out>>

(***************************************************************************)
(* Bounds                                                                  *)
(***************************************************************************)
\* operands of the core functions range over -MaxAbs..MaxAbs
MaxAbs == 9
\* exponents of modPow range over -MaxExp..MaxExp
MaxExp == 5
\* the driver draws its primes from the first PrimeCount entries of PRIMES
PrimeCount == 4
\* rand() returns a value in 0..MaxRand
MaxRand == 40
\* the plaintext entered on the console is a value in 0..MaxM
MaxM == 70

IntRange == (0 - MaxAbs)..MaxAbs
ExpRange == (0 - MaxExp)..MaxExp
RandRange == 0..MaxRand

(***************************************************************************)
(* C++ integer operators                                                   *)
(***************************************************************************)
\* a / b, truncating towards zero (b # 0)
CDiv(a, b) ==
  LET ua == IF a < 0 THEN 0 - a ELSE a
      ub == IF b < 0 THEN 0 - b ELSE b
  IN IF (a < 0) = (b < 0) THEN ua \div ub ELSE 0 - (ua \div ub)

\* a % b, the remainder of the truncating division (b # 0)
CRem(a, b) == a - b * CDiv(a, b)

\* x | 1
BitOr1(x) == IF x % 2 = 0 THEN x + 1 ELSE x

(***************************************************************************)
(* Integer utilities                                                       *)
(***************************************************************************)
abs(x) == IF x < 0 THEN 0 - x ELSE x

isEven(a) == a % 2 = 0

(***************************************************************************)
(* gcd, isCoprime                                                          *)
(***************************************************************************)
RECURSIVE gcdLoop(_, _)
\* while (tb) ta %= tb, swapCustom(ta, tb);  return ta;
gcdLoop(ta, tb) == IF tb = 0 THEN ta ELSE gcdLoop(tb, CRem(ta, tb))

\* gcd with the two abs() calls left out
gcdNoAbs(a, b) == IF a < b THEN gcdLoop(b, a) ELSE gcdLoop(a, b)

gcd(a, b) ==
  LET ta == abs(a)
      tb == abs(b)
  IN IF ta < tb THEN gcdLoop(tb, ta) ELSE gcdLoop(ta, tb)

\* isCoprime with >= in place of ==
isCoprimeGe(a, b) == gcd(a, b) >= 1

isCoprime(a, b) == gcd(a, b) = 1

(***************************************************************************)
(* invMul                                                                  *)
(***************************************************************************)
RECURSIVE invMulLoopPlus(_, _, _, _)
\* the loop with t = y + y1 * q
invMulLoopPlus(a, b, y, y1) ==
  IF b = 0 THEN <<a, y>>
  ELSE LET q == CDiv(a, b)
       IN invMulLoopPlus(b, CRem(a, b), y1, y + y1 * q)

RECURSIVE invMulLoop(_, _, _, _)
\* while (b) { q = a / b; t = a % b, a = b; b = t;
\*             t = y - y1 * q, y = y1, y1 = t; }      yields <<a, y>>
invMulLoop(a, b, y, y1) ==
  IF b = 0 THEN <<a, y>>
  ELSE LET q == CDiv(a, b)
       IN invMulLoop(b, CRem(a, b), y1, y - y1 * q)

\* invMul without `if (y < 0) y += abs(valA)`
invMulNoNorm(valB, valA) ==
  LET r == invMulLoop(abs(valA), abs(valB), 0, 1)
      y3 == IF valB < 0 THEN 0 - r[2] ELSE r[2]
  IN IF r[1] # 1 THEN 0 ELSE y3

\* invMul without `if (a != 1) return 0`
invMulNoCheck(valB, valA) ==
  LET r == invMulLoop(abs(valA), abs(valB), 0, 1)
      y2 == IF r[2] < 0 THEN r[2] + abs(valA) ELSE r[2]
  IN IF valB < 0 THEN 0 - y2 ELSE y2

\* invMul negating on valA < 0 instead of valB < 0
invMulSignOfA(valB, valA) ==
  LET r == invMulLoop(abs(valA), abs(valB), 0, 1)
      y2 == IF r[2] < 0 THEN r[2] + abs(valA) ELSE r[2]
      y3 == IF valA < 0 THEN 0 - y2 ELSE y2
  IN IF r[1] # 1 THEN 0 ELSE y3

invMul(valB, valA) ==
  LET r == invMulLoop(abs(valA), abs(valB), 0, 1)
      y2 == IF r[2] < 0 THEN r[2] + abs(valA) ELSE r[2]
      y3 == IF valB < 0 THEN 0 - y2 ELSE y2
  IN IF r[1] # 1 THEN 0 ELSE y3

(***************************************************************************)
(* modMul, modPow                                                          *)
(***************************************************************************)
modMul(a, b, module) == CRem(a * b, module)

RECURSIVE modPowLoopSquareFirst(_, _, _, _)
\* the loop squaring c before the multiplication into f
modPowLoopSquareFirst(f, exp, c, module) ==
  IF exp = 0 THEN f
  ELSE LET c2 == modMul(c, c, module)
       IN modPowLoopSquareFirst(IF ~isEven(exp) THEN modMul(f, c2, module) ELSE f,
                                exp \div 2, c2, module)

RECURSIVE modPowLoop(_, _, _, _)
\* for (f = 1; exp; exp >>= 1, c = modMul(c, c, module))
\*     if (!isEven(exp)) f = modMul(f, c, module);
modPowLoop(f, exp, c, module) ==
  IF exp = 0 THEN f
  ELSE modPowLoop(IF ~isEven(exp) THEN modMul(f, c, module) ELSE f,
                  exp \div 2, modMul(c, c, module), module)

\* modPow without the inversion of the base for n < 0
modPowNoInverse(a, n, module) ==
  IF n = 0 THEN 1
  ELSE modPowLoop(1, abs(n), CRem(a, module), module)

\* modPow with `if (n <= 0) return 1`
modPowLeZero(a, n, module) ==
  IF n <= 0 THEN 1
  ELSE modPowLoop(1, abs(n), CRem(a, module), module)

modPow(a, n, module) ==
  IF n = 0 THEN 1
  ELSE LET c0 == CRem(a, module)
           c == IF n < 0 THEN invMul(c0, module) ELSE c0
       IN modPowLoop(1, abs(n), c, module)

(***************************************************************************)
(* The driver                                                              *)
(***************************************************************************)
PRIMES ==
  <<2, 3, 5, 7, 11, 13, 17, 19, 23, 29, 31, 37, 41, 43, 47,
    53, 59, 61, 67, 71, 73, 79, 83, 89, 97, 101, 103, 107, 109, 113,
    127, 131, 137, 139, 149, 151, 157, 163, 167, 173, 179, 181, 191, 193, 197,
    199, 211, 223, 227, 229, 233, 239, 241, 251>>

\* unsigned P = PRIMES[rand() % sizeof(PRIMES)];  cout << P
\* (PrimeCount stands for sizeof(PRIMES): the table is cut to its prefix)
PickP ==
  /\ pc = "pickP"
  /\ \E r \in RandRange :
       /\ P' = PRIMES[(r % PrimeCount) + 1]
       /\ out' = Append(out, P')
  /\ pc' = "pickQ"
  /\ UNCHANGED <<Q, N, Phi, e, d, M, C, argv, retv>>

\* unsigned Q = PRIMES[rand() % sizeof(PRIMES)];  cout << Q
PickQ ==
  /\ pc = "pickQ"
  /\ \E r \in RandRange :
       /\ Q' = PRIMES[(r % PrimeCount) + 1]
       /\ out' = Append(out, Q')
  /\ pc' = "calcN"
  /\ UNCHANGED <<P, N, Phi, e, d, M, C, argv, retv>>

\* unsigned N = P * Q;  cout << N
CalcN ==
  /\ pc = "calcN"
  /\ N' = P * Q
  /\ out' = Append(out, N')
  /\ pc' = "calcPhi"
  /\ UNCHANGED <<P, Q, Phi, e, d, M, C, argv, retv>>

\* unsigned Phi = (P - 1) * (Q - 1);  cout << Phi
CalcPhi ==
  /\ pc = "calcPhi"
  /\ Phi' = (P - 1) * (Q - 1)
  /\ out' = Append(out, Phi')
  /\ pc' = "pickE"
  /\ UNCHANGED <<P, Q, N, e, d, M, C, argv, retv>>

\* unsigned e = (rand() % Phi) | 1;
PickE ==
  /\ pc = "pickE"
  /\ \E r \in RandRange : e' = BitOr1(r % Phi)
  /\ pc' = "loopE"
  /\ UNCHANGED <<P, Q, N, Phi, d, M, C, out, argv, retv>>

\* while (!isCoprime(e, Phi)) e += 2;     one iteration
LoopE ==
  /\ pc = "loopE"
  /\ ~isCoprime(e, Phi)
  /\ e' = e + 2
  /\ UNCHANGED <<pc, P, Q, N, Phi, d, M, C, out, argv, retv>>

\* the loop condition fails;  cout << e
ExitLoopE ==
  /\ pc = "loopE"
  /\ isCoprime(e, Phi)
  /\ out' = Append(out, e)
  /\ pc' = "calcD"
  /\ UNCHANGED <<P, Q, N, Phi, e, d, M, C, argv, retv>>

\* unsigned d = invMul(e, Phi);  cout << d
CalcD ==
  /\ pc = "calcD"
  /\ d' = invMul(e, Phi)
  /\ out' = Append(out, d')
  /\ pc' = "readM"
  /\ UNCHANGED <<P, Q, N, Phi, e, M, C, argv, retv>>

\* cin >> M;  M %= N;  cout << M
ReadM ==
  /\ pc = "readM"
  /\ \E m \in 0..MaxM :
       /\ M' = CRem(m, N)
       /\ out' = Append(out, M')
  /\ pc' = "encrypt"
  /\ UNCHANGED <<P, Q, N, Phi, e, d, C, argv, retv>>

\* unsigned C = modPow(M, e, N);  cout << C
Encrypt ==
  /\ pc = "encrypt"
  /\ C' = modPow(M, e, N)
  /\ out' = Append(out, C')
  /\ pc' = "decrypt"
  /\ UNCHANGED <<P, Q, N, Phi, e, d, M, argv, retv>>

\* M = modPow(C, d, N);  cout << M;  return 0
Decrypt ==
  /\ pc = "decrypt"
  /\ M' = modPow(C, d, N)
  /\ out' = Append(out, M')
  /\ pc' = "done"
  /\ UNCHANGED <<P, Q, N, Phi, e, d, C, argv, retv>>

\* the plaintext printed after `M %= N`, and the value printed last
PrintedM == out[7]
PrintedLast == out[Len(out)]

InitMain ==
  /\ pc = "pickP"
  /\ P = 0 /\ Q = 0 /\ N = 0 /\ Phi = 0 /\ e = 0 /\ d = 0 /\ M = 0 /\ C = 0
  /\ out = <<>>
  /\ argv = <<>>
  /\ retv = 0

NextMain ==
  \/ PickP \/ PickQ \/ CalcN \/ CalcPhi \/ PickE \/ LoopE \/ ExitLoopE
  \/ CalcD \/ ReadM \/ Encrypt \/ Decrypt

SpecMain == InitMain /\ [][NextMain]_vars

(***************************************************************************)
(* Key derivation, encryption and decryption (main, lines 92-102) started  *)
(* from any key material with distinct primes and a coprime exponent       *)
(***************************************************************************)
\* the distinct-prime key material the runs start from: the table prefix
\* with every exponent coprime with Phi, and P = 61, Q = 53, e = 17
KeyMaterial ==
  {<<PRIMES[i], PRIMES[j], x>> :
      <<i, j, x>> \in {t \in (1..PrimeCount) \X (1..PrimeCount)
                               \X (1..((PRIMES[PrimeCount] - 1) * (PRIMES[PrimeCount] - 1))) :
                        /\ t[1] # t[2]
                        /\ t[3] < (PRIMES[t[1]] - 1) * (PRIMES[t[2]] - 1)
                        /\ isCoprime(t[3], (PRIMES[t[1]] - 1) * (PRIMES[t[2]] - 1))}}
  \cup {<<61, 53, 17>>}

InitRSA ==
  /\ pc = "calcD"
  /\ \E k \in KeyMaterial :
       /\ P = k[1] /\ Q = k[2] /\ e = k[3]
       /\ N = k[1] * k[2]
       /\ Phi = (k[1] - 1) * (k[2] - 1)
       /\ out = <<k[1], k[2], k[1] * k[2], (k[1] - 1) * (k[2] - 1), k[3]>>
  /\ d = 0 /\ M = 0 /\ C = 0
  /\ argv = <<>>
  /\ retv = 0

\* main up to the derivation of d (lines 81-92)
NextSelect ==
  PickP \/ PickQ \/ CalcN \/ CalcPhi \/ PickE \/ LoopE \/ ExitLoopE \/ CalcD

\* main is a sequential program: whenever a statement is enabled it runs
SpecSelect == InitMain /\ [][NextSelect]_vars /\ WF_vars(NextSelect)

NextRSA == CalcD \/ ReadM \/ Encrypt \/ Decrypt

SpecRSA == InitRSA /\ [][NextRSA]_vars

(***************************************************************************)
(* The core functions applied to arbitrary arguments                       *)
(***************************************************************************)
gcdCall ==
  /\ pc = "gcd"
  /\ retv' = gcd(argv[1], argv[2])
  /\ pc' = "gcd_ret"
  /\ UNCHANGED <<argv, mainVars>>

invMulCall ==
  /\ pc = "invMul"
  /\ retv' = invMul(argv[1], argv[2])
  /\ pc' = "invMul_ret"
  /\ UNCHANGED <<argv, mainVars>>

modPowCall ==
  /\ pc = "modPow"
  /\ retv' = modPow(argv[1], argv[2], argv[3])
  /\ pc' = "modPow_ret"
  /\ UNCHANGED <<argv, mainVars>>

Init ==
  /\ \/ pc = "gcd" /\ argv \in IntRange \X IntRange
     \/ pc = "invMul" /\ argv \in IntRange \X IntRange
     \/ pc = "modPow" /\ argv \in IntRange \X ExpRange \X (IntRange \ {0})
  /\ retv = 0
  /\ P = 0 /\ Q = 0 /\ N = 0 /\ Phi = 0 /\ e = 0 /\ d = 0 /\ M = 0 /\ C = 0
  /\ out = <<>>

Next == gcdCall \/ invMulCall \/ modPowCall

Spec == Init /\ [][Next]_vars

(***************************************************************************)
(* Reference arithmetic the properties are stated with                     *)
(***************************************************************************)
Magnitude(x) == IF x < 0 THEN 0 - x ELSE x

Divides(k, n) == n % k = 0

\* the greatest common divisor of |a| and |b|; 0 when both are 0
MathGCD(a, b) ==
  LET x == Magnitude(a)
      y == Magnitude(b)
  IN IF x = 0 THEN y
     ELSE IF y = 0 THEN x
     ELSE CHOOSE g \in 1..x :
            /\ Divides(g, x) /\ Divides(g, y)
            /\ \A h \in 1..x : (Divides(h, x) /\ Divides(h, y)) => h <= g

RECURSIVE Pow(_, _)
\* b^k for k >= 0
Pow(b, k) == IF k = 0 THEN 1 ELSE b * Pow(b, k - 1)

Max(x, y) == IF x >= y THEN x ELSE y

Odd(x) == x % 2 = 1

(***************************************************************************)
(* Properties                                                              *)
(***************************************************************************)
\* C1: RSA round trip.  For distinct primes P # Q, N = P*Q, Phi = (P-1)*(Q-1),
\* every e with 1 <= e < Phi coprime with Phi, d = invMul(e, Phi) and every
\* M with 0 <= M < N, modPow(modPow(M, e, N), d, N) = M; for P = 61, Q = 53,
\* e = 17, M = 65: d = 2753, C = 2790 and the decryption gives 65 again.
RoundTrip ==
  (pc = "done" /\ P # Q /\ 1 <= e /\ e < Phi /\ MathGCD(e, Phi) = 1) =>
     /\ d = invMul(e, Phi)
     /\ C = modPow(PrintedM, e, N)
     /\ M = PrintedM
     /\ (P = 61 /\ Q = 53 /\ e = 17 /\ PrintedM = 65) => (d = 2753 /\ C = 2790 /\ M = 65)

RoundTripWitness ==
  /\ pc = "done" /\ P = 61 /\ Q = 53 /\ e = 17
  /\ d = 2753 /\ C = 2790 /\ PrintedM = 65 /\ M = 65

\* C2 as stated: for every modulus a # 0 and every b with gcd(a, b) = 1,
\* x = invMul(b, a) satisfies (b * x) % a = 1 (truncating remainder).
InverseCorrectAnyModulus ==
  (pc = "invMul_ret" /\ argv[2] # 0 /\ MathGCD(argv[2], argv[1]) = 1) =>
     CRem(argv[1] * retv, argv[2]) = 1

\* C2 amended: for every modulus a with |a| >= 2 and every b of either sign
\* with gcd(a, b) = 1, x = invMul(b, a) satisfies (b * x) % a = 1.
InverseCorrect ==
  (pc = "invMul_ret" /\ Magnitude(argv[2]) >= 2 /\ MathGCD(argv[2], argv[1]) = 1) =>
     CRem(argv[1] * retv, argv[2]) = 1

InverseCorrectWitness ==
  /\ pc = "invMul_ret" /\ argv = <<0 - 3, 0 - 7>>
  /\ CRem(argv[1] * retv, argv[2]) = 1

\* C3: for all a, b with gcd(a, b) # 1 (a = 0, b = 0 and a = b = 0 included)
\* invMul(b, a) returns the sentinel 0.
InverseFailure ==
  (pc = "invMul_ret" /\ MathGCD(argv[2], argv[1]) # 1) => retv = 0

InverseFailureWitness ==
  pc = "invMul_ret" /\ argv = <<2, 4>> /\ retv = 0

\* C4: for every modulus m >= 1, every signed base coprime with m and every
\* n >= 0, modPow(base, -n, m) = invMul(modPow(base, n, m), m).
NegativeExponentEquivalence ==
  (pc = "modPow_ret" /\ argv[2] <= 0 /\ argv[3] >= 1
     /\ MathGCD(argv[1], argv[3]) = 1) =>
     retv = invMul(modPow(argv[1], 0 - argv[2], argv[3]), argv[3])

NegativeExponentWitness ==
  pc = "modPow_ret" /\ argv = <<0 - 2, 0 - 3, 5>> /\ retv = 0 - 2

\* C5: gcd(a, b) is the non-negative greatest common divisor of |a| and |b|,
\* gcd(0, 0) = 0, and gcd(a, b) = gcd(b, a).
GcdCorrect ==
  pc = "gcd_ret" =>
     /\ retv = MathGCD(argv[1], argv[2])
     /\ retv >= 0
     /\ retv = gcd(argv[2], argv[1])
     /\ (argv = <<0, 0>>) => retv = 0

GcdCorrectWitness ==
  pc = "gcd_ret" /\ argv = <<0 - 6, 4>> /\ retv = 2

\* C6 as stated: for every signed base, exponent >= 0 and modulus > 1, modPow
\* returns the canonical residue of base^exponent modulo modulus, a value in
\* [0, modulus), and 1 when exponent = 0.
ModPowCanonical ==
  (pc = "modPow_ret" /\ argv[2] >= 0 /\ argv[3] > 1) =>
     /\ retv = Pow(argv[1], argv[2]) % argv[3]
     /\ 0 <= retv /\ retv < argv[3]
     /\ (argv[2] = 0) => retv = 1

\* C6 amended: for every signed base, exponent >= 0 and modulus > 1, modPow
\* returns the truncating remainder of base^exponent by modulus: a value r
\* congruent to base^exponent with |r| < modulus and the sign of
\* base^exponent; it is the canonical residue in [0, modulus) when
\* base >= 0, and 1 when exponent = 0.
ModPowTruncating ==
  (pc = "modPow_ret" /\ argv[2] >= 0 /\ argv[3] > 1) =>
     LET p == Pow(argv[1], argv[2])
     IN /\ (p - retv) % argv[3] = 0
        /\ 0 - argv[3] < retv /\ retv < argv[3]
        /\ (p >= 0) => retv >= 0
        /\ (p <= 0) => retv <= 0
        /\ (argv[1] >= 0) => retv = p % argv[3]
        /\ (argv[2] = 0) => retv = 1

ModPowTruncatingWitness ==
  pc = "modPow_ret" /\ argv = <<0 - 2, 3, 5>> /\ retv = 0 - 3

\* C7: for every n < 0 and modulus > 1, modPow(base, n, modulus) is the
\* sentinel 0 when gcd(base % modulus, modulus) # 1, and is not 0 when base
\* is coprime with modulus.
NoInversePropagates ==
  (pc = "modPow_ret" /\ argv[2] < 0 /\ argv[3] > 1) =>
     /\ (MathGCD(CRem(argv[1], argv[3]), argv[3]) # 1) => retv = 0
     /\ (MathGCD(argv[1], argv[3]) = 1) => retv # 0

NoInverseWitness ==
  pc = "modPow_ret" /\ argv = <<4, 0 - 3, 6>> /\ retv = 0

\* C8 as stated: for every a # 0 and b with gcd(|a|, |b|) = 1, invMul(b, a)
\* is x with 0 <= x < |a| when a is positive and the negation of such a
\* value when a is negative, whatever the sign of b.
InverseSignFollowsModulus ==
  (pc = "invMul_ret" /\ argv[2] # 0 /\ MathGCD(argv[2], argv[1]) = 1) =>
     /\ (argv[2] > 0) => (0 <= retv /\ retv < Magnitude(argv[2]))
     /\ (argv[2] < 0) => (0 <= 0 - retv /\ 0 - retv < Magnitude(argv[2]))

\* C8 amended: for every a with |a| >= 2 and b with gcd(|a|, |b|) = 1,
\* invMul(b, a) is x with 0 < x < |a| when b is positive and the negation
\* of such a value when b is negative; the result is negated exactly when
\* the inverted value b is negative, whatever the sign of the modulus a.
InverseSignFollowsValue ==
  (pc = "invMul_ret" /\ Magnitude(argv[2]) >= 2 /\ MathGCD(argv[2], argv[1]) = 1) =>
     /\ (argv[1] > 0) => (0 < retv /\ retv < Magnitude(argv[2]))
     /\ (argv[1] < 0) => (0 < 0 - retv /\ 0 - retv < Magnitude(argv[2]))

InverseSignWitness ==
  pc = "invMul_ret" /\ argv = <<0 - 2, 5>> /\ retv = 0 - 3

\* C9: the selection of the public exponent terminates: for every P, Q of
\* the PRIMES table (P = Q allowed) and every rand() value the loop ends
\* after finitely many steps, e never exceeds max(1, Phi - 1) (so it never
\* wraps), and it ends with e odd, gcd(e, Phi) = 1, 1 <= e <= max(1, Phi - 1).
ExponentSelectionTerminates ==
  /\ [](pc = "loopE" => (Odd(e) /\ 1 <= e /\ e <= Max(1, Phi - 1)))
  /\ [](pc \in {"calcD", "readM"} =>
          (Odd(e) /\ MathGCD(e, Phi) = 1 /\ 1 <= e /\ e <= Max(1, Phi - 1)))
  /\ (pc = "loopE") ~> (pc = "calcD")

ExponentSelectionWitness ==
  pc = "calcD" /\ P = 5 /\ Q = 7 /\ Phi = 24 /\ e = 23 /\ out[5] = 23

\* C10: in every run of main (P = Q possible) the value printed last,
\* modPow(modPow(M, e, N), d, N), equals the reduced plaintext M.
DriverRoundTrip ==
  pc = "done" => (PrintedLast = PrintedM /\ M = PrintedM)

====
